---- MODULE Spec2Model ----
(***************************************************************************)
(* Model of the face-tracking servo controller of creepy-painting:         *)
(*   src/face_tracker_servo.py  ServoController, FaceTrackerThread,        *)
(*                              FaceTrackerServoApp                        *)
(*                                                                         *)
(* The specifications are given over the same state.                       *)
(*   Spec     the ServoController object driven call by call (each method  *)
(*            is one action), with arbitrary arguments, as test_servo.py   *)
(*            and any other single-threaded caller drives it.              *)
(*   SpecApp  the application: the Qt UI thread and the FaceTrackerThread  *)
(*            worker, interleaved at the statements where they touch the   *)
(*            shared ServoController and thread flags.                     *)
(*   SpecSelect     the choice of the largest face in FaceTrackerThread.run *)
(*                  for a detector result drawn at Init.                   *)
(*   SpecConfig     a ServoController built with other angle limits.       *)
(*   SpecConstruct  ServoController.__init__ with the outcomes of the      *)
(*                  RPi.GPIO initialisation, then the calls of Spec.       *)
(*   SpecFault      SpecApp with servo.ChangeDutyCycle able to raise.      *)
(*                                                                         *)
(* Angles are Python numbers (int or float).  They are modelled as exact   *)
(* rationals <<numerator, denominator>> in lowest terms with a positive    *)
(* denominator; binary floating-point rounding (of the order of 1e-14      *)
(* degrees) is not modelled.                                               *)
(***************************************************************************)
EXTENDS Integers, Sequences, FiniteSets, TLC

(***************************************************************************)
(* Rational arithmetic.                                                    *)
(***************************************************************************)
Abs(i) == IF i < 0 THEN -i ELSE i

RECURSIVE GCD(_, _)
GCD(a, b) == IF b = 0 THEN a ELSE GCD(b, a % b)

Rat(n, d) ==
    LET g == GCD(Abs(n), Abs(d))
        s == IF d < 0 THEN -1 ELSE 1
    IN  <<(s * n) \div g, (s * d) \div g>>

FromInt(i) == <<i, 1>>
RAdd(p, q) == Rat(p[1] * q[2] + q[1] * p[2], p[2] * q[2])
RNeg(p) == <<-p[1], p[2]>>
RSub(p, q) == RAdd(p, RNeg(q))
RMul(p, q) == Rat(p[1] * q[1], p[2] * q[2])
RLe(p, q) == p[1] * q[2] <= q[1] * p[2]
RLt(p, q) == p[1] * q[2] < q[1] * p[2]
RAbs(p) == <<Abs(p[1]), p[2]>>
\* Python's max(a, b) and min(a, b): the first argument wins a tie.
RMax(p, q) == IF RLt(p, q) THEN q ELSE p
RMin(p, q) == IF RLt(q, p) THEN q ELSE p
\* Python's int(x) of a float: truncation toward zero.
RTrunc(p) == IF p[1] >= 0 THEN p[1] \div p[2] ELSE -((-p[1]) \div p[2])

(***************************************************************************)
(* ServoController.__init__: the configuration the application and the     *)
(* test script construct it with (the defaults).                           *)
(***************************************************************************)
min_angle == 0
max_angle == 180
center_angle == 90
dead_zone == 20
max_speed == 2
smoothing_factor == <<3, 10>>

(***************************************************************************)
(* Bounds of the model.                                                    *)
(***************************************************************************)
\* Number of ServoController calls in a behaviour of Spec.
MaxOps == 3

\* Arguments the calls are tried with: angles inside, at the ends of and
\* outside the range; frame widths that are negative, zero, one, odd and
\* even; target positions inside, on the edge of and outside the dead zone.
Angles == {-10, 0, 45, 68, 90, 180, 200}
FrameWidths == {-640, 0, 1, 41, 640}
FaceXs == {-300, 0, 25, 40, 41, 320, 330, 338, 400, 600}

VARIABLES
    current_angle,      \* ServoController.current_angle
    hardware_available, \* ServoController.hardware_available
    pwm,                \* duty cycle the PWM channel currently outputs
    commands,           \* number of actuator commands issued so far
    gpio,               \* "none" | "active" | "cleaned"
    hw_frees,           \* number of times servo.stop() and GPIO.cleanup() ran
    last,               \* Spec: the last ServoController call and what it saw
    ops,                \* Spec: number of calls made so far
    drive,              \* Spec: duty cycles the last call wrote, in order
    faces,              \* SpecSelect: the boxes detected in this frame
    largest_face,       \* SpecSelect: the box picked for tracking, or <<>>
    selection,          \* SpecSelect: "pending" | "no_target" | "tracked"
    config,             \* SpecConfig: [min, max, center] given to __init__
    constructed,        \* SpecConstruct: "no" | "yes" | "raised"
    probe,              \* SpecConstruct: how the RPi.GPIO initialisation went
    ui_pc,              \* SpecApp: statement the UI thread is at
    ui_angle,           \* local `angle` of the UI thread's set_angle call
    ui_closing,         \* the UI thread is inside closeEvent
    ui_events,          \* number of user events handled so far
    slider,             \* angle_slider.value()
    angle_label,        \* number shown by angle_label
    is_tracking,        \* FaceTrackerServoApp.is_tracking
    tracker_thread,     \* FaceTrackerServoApp.tracker_thread: "None" | "thread"
    stop_enabled,       \* stop_button.isEnabled()
    w_pc,               \* statement the FaceTrackerThread worker is at
    w_after,            \* where the worker's set_angle call returns to
    w_face,             \* face_center_x of this tick's largest face, or NoFace
    w_diff,             \* local angle_diff of the worker's track_face call
    w_angle,            \* local `angle` of the worker's set_angle call
    running,            \* FaceTrackerThread.running
    cap,                \* FaceTrackerThread.cap: "None" | "open" | "failed" | "released"
    events,             \* queued signal emissions awaiting the UI thread
    ticks,              \* number of loop iterations started by the workers
    stop_requested,     \* history: stop() has set running = False (line 162)
    ticks_after_stop,   \* history: iterations started since then
    tick_ret,           \* history: this iteration read a frame
    tick_pubs,          \* history: servo_angle_update emissions this iteration
    w_centered,         \* history: this worker's center_servo() stored center_angle
    w_exc               \* exception that ended this worker's run(), or "none"

servoVars == <<current_angle, hardware_available, pwm, commands, gpio, hw_frees>>
sideVars == <<faces, largest_face, selection, config, constructed, probe>>
callVars == <<last, ops, drive, sideVars>>
uiVars == <<ui_pc, ui_angle, ui_closing, ui_events, slider, angle_label,
            is_tracking, tracker_thread, stop_enabled>>
workerVars == <<w_pc, w_after, w_face, w_diff, w_angle, running, cap, ticks,
                stop_requested, ticks_after_stop, tick_ret, tick_pubs,
                w_centered, w_exc>>
appVars == <<uiVars, workerVars, events>>
vars == <<servoVars, callVars, appVars>>

(***************************************************************************)
(* ServoController.set_angle                                               *)
(***************************************************************************)
\* line 43: angle = max(self.min_angle, min(self.max_angle, angle))
ClampLowerOnly(angle) == RMax(FromInt(min_angle), angle)
Clamp(angle) == RMax(FromInt(min_angle), RMin(FromInt(max_angle), angle))

\* line 47: duty_cycle = (angle / 180) * 10 + 2.5
duty_cycle(angle) == RAdd(RMul(RMul(angle, <<1, 180>>), FromInt(10)), <<5, 2>>)

InRange(angle) == RLe(FromInt(min_angle), angle) /\ RLe(angle, FromInt(max_angle))

(***************************************************************************)
(* ServoController.track_face                                              *)
(***************************************************************************)
\* line 60
frame_center_x(frame_width) == frame_width \div 2
\* line 63
offset_x(face_x, frame_width) == face_x - frame_center_x(frame_width)
\* line 66
InDeadZoneNarrow(face_x, frame_width) ==
    Abs(offset_x(face_x, frame_width)) < dead_zone - 5
InDeadZone(face_x, frame_width) == Abs(offset_x(face_x, frame_width)) < dead_zone
\* line 71: the division raises ZeroDivisionError when frame_center_x is 0
DivByZero(frame_width) == frame_center_x(frame_width) = 0
\* line 71
angle_change(face_x, frame_width) ==
    RMul(RMul(Rat(offset_x(face_x, frame_width), frame_center_x(frame_width)),
              FromInt(max_angle - min_angle)),
         <<1, 2>>)
target_angle_additive(face_x, frame_width) ==
    RAdd(FromInt(center_angle), angle_change(face_x, frame_width))
\* line 74
target_angle(face_x, frame_width) ==
    RSub(FromInt(center_angle), angle_change(face_x, frame_width))
\* lines 77-78; cur is the value self.current_angle has when line 77 reads it
angle_diff_unlimited(cur, face_x, frame_width) ==
    RSub(target_angle(face_x, frame_width), cur)
angle_diff(cur, face_x, frame_width) ==
    RMax(FromInt(-max_speed),
         RMin(FromInt(max_speed), RSub(target_angle(face_x, frame_width), cur)))
new_angle_unsmoothed(cur, diff) == RAdd(cur, diff)
new_angle_doubled(cur, diff) == RAdd(cur, RMul(diff, FromInt(2)))
\* line 80; cur is the value self.current_angle has when line 80 reads it
new_angle(cur, diff) == RAdd(cur, RMul(diff, smoothing_factor))

(***************************************************************************)
(* Spec: the ServoController driven call by call.                          *)
(***************************************************************************)
NoCall == [op |-> "init", angle |-> 0, face_x |-> 0, frame_width |-> 0,
           prev_angle |-> FromInt(center_angle), prev_commands |-> 0,
           outcome |-> "ok"]

NoFace == -1

\* FaceTrackerServoApp.__init__ (lines 170-187) and setup_ui (lines 230-239,
\* 321); no FaceTrackerThread exists yet.
AppInit ==
    /\ ui_pc = "idle"
    /\ ui_angle = FromInt(center_angle)
    /\ ui_closing = FALSE
    /\ ui_events = 0
    /\ slider = 90
    /\ angle_label = 90
    /\ is_tracking = FALSE
    /\ tracker_thread = "None"
    /\ stop_enabled = FALSE
    /\ w_pc = "none"
    /\ w_after = "none"
    /\ w_face = NoFace
    /\ w_diff = FromInt(0)
    /\ w_angle = FromInt(center_angle)
    /\ running = FALSE
    /\ cap = "None"
    /\ events = <<>>
    /\ ticks = 0
    /\ stop_requested = FALSE
    /\ ticks_after_stop = 0
    /\ tick_ret = FALSE
    /\ tick_pubs = 0
    /\ w_centered = FALSE
    /\ w_exc = "none"

\* lines 14-38: current_angle = center_angle; the import of RPi.GPIO either
\* succeeds (PWM started with duty cycle 0) or raises ImportError.
ServoInit ==
    /\ current_angle = FromInt(center_angle)
    /\ hardware_available \in BOOLEAN
    /\ pwm = FromInt(0)
    /\ commands = 0
    /\ gpio = IF hardware_available THEN "active" ELSE "none"
    /\ hw_frees = 0
    /\ last = NoCall
    /\ ops = 0
    /\ drive = <<>>
    /\ AppInit

DefaultConfig == [min |-> min_angle, max |-> max_angle, center |-> center_angle]

Init ==
    /\ ServoInit
    /\ faces = <<>>
    /\ largest_face = <<>>
    /\ selection = "pending"
    /\ config = DefaultConfig
    /\ constructed = "yes"
    /\ probe = IF hardware_available THEN "ok" ELSE "ImportError"

SetAngleEffectHalfway(angle) ==
    /\ current_angle' = RMul(RAdd(current_angle, Clamp(angle)), Rat(1, 2))
    /\ pwm' = FromInt(0)
    /\ drive' = IF hardware_available
                THEN <<duty_cycle(Clamp(angle)), FromInt(0)>>
                ELSE <<>>
    /\ commands' = commands + 1
    /\ UNCHANGED <<hardware_available, gpio, hw_frees>>

\* lines 40-55, run to completion: the drive signal is written, held and
\* zeroed (hardware) or the move is printed (simulation), then the angle is
\* stored.
SetAngleEffect(angle) ==
    /\ current_angle' = Clamp(angle)
    /\ pwm' = FromInt(0)
    /\ drive' = IF hardware_available
                THEN <<duty_cycle(Clamp(angle)), FromInt(0)>>
                ELSE <<>>
    /\ commands' = commands + 1
    /\ UNCHANGED <<hardware_available, gpio, hw_frees>>

Called(op, angle, face_x, frame_width, outcome) ==
    /\ last' = [op |-> op, angle |-> angle, face_x |-> face_x,
                frame_width |-> frame_width, prev_angle |-> current_angle,
                prev_commands |-> commands, outcome |-> outcome]
    /\ ops' = ops + 1
    /\ UNCHANGED appVars

set_angle ==
    \E angle \in Angles :
        /\ ops < MaxOps
        /\ SetAngleEffect(FromInt(angle))
        /\ Called("set_angle", angle, 0, 0, "ok")
        /\ UNCHANGED sideVars

\* lines 57-83, one call with the given arguments
TrackFaceCall(face_x, frame_width) ==
    IF InDeadZone(face_x, frame_width)
    THEN /\ UNCHANGED servoVars
         /\ drive' = <<>>
         /\ Called("track_face", 0, face_x, frame_width, "dead_zone")
    ELSE IF DivByZero(frame_width)
    THEN /\ UNCHANGED servoVars
         /\ drive' = <<>>
         /\ Called("track_face", 0, face_x, frame_width, "ZeroDivisionError")
    ELSE /\ SetAngleEffect(
                new_angle(current_angle,
                          angle_diff(current_angle, face_x, frame_width)))
         /\ Called("track_face", 0, face_x, frame_width, "ok")

\* lines 57-83
track_face ==
    \E face_x \in FaceXs, frame_width \in FrameWidths :
        /\ ops < MaxOps
        /\ TrackFaceCall(face_x, frame_width)
        /\ UNCHANGED sideVars

\* lines 85-87
center_servo ==
    /\ ops < MaxOps
    /\ SetAngleEffect(FromInt(center_angle))
    /\ Called("center_servo", center_angle, 0, 0, "ok")
    /\ UNCHANGED sideVars

\* lines 89-94: servo.stop() and GPIO.cleanup() run on every call made in
\* hardware mode; neither raises when repeated.
CleanupEffect ==
    /\ gpio' = IF hardware_available THEN "cleaned" ELSE gpio
    /\ hw_frees' = IF hardware_available THEN hw_frees + 1 ELSE hw_frees
    /\ pwm' = IF hardware_available THEN FromInt(0) ELSE pwm
    /\ UNCHANGED <<current_angle, hardware_available, commands>>

\* lines 89-94
cleanup ==
    /\ ops < MaxOps
    /\ CleanupEffect
    /\ drive' = <<>>
    /\ Called("cleanup", 0, 0, 0, "ok")
    /\ UNCHANGED sideVars

Next == set_angle \/ track_face \/ center_servo \/ cleanup

Spec == Init /\ [][Next]_vars

(***************************************************************************)
(* SpecApp: FaceTrackerServoApp (UI thread) and FaceTrackerThread (worker).*)
(* set_angle is split where the calling thread can be descheduled with the *)
(* call in progress: after the drive signal is written (the 0.1 s sleep of *)
(* line 49, or the print of line 53) and before the signal is zeroed and   *)
(* current_angle is stored (lines 50 and 55).                              *)
(***************************************************************************)
\* Number of loop iterations the workers start in a behaviour.
MaxTicks == 2
\* Number of user events (slider, buttons, close) in a behaviour.
MaxUiEvents == 3
\* Number of signal emissions that may await the UI thread.
MaxQueue == 3

\* Inputs of the application: the width of the camera's frames, the centre
\* of the largest detected face, the positions the user drags the slider to
\* (the slider's range is 0..180, line 238).
AppFrameWidths == {640}
AppFaceXs == {330, 400}
SliderValues == {0, 90, 180}

\* lines 43-49 and 53: clamp, then write the drive signal (hardware) or
\* print the move (simulation); the caller keeps the clamped angle.
SetAngleBegin(angle) ==
    /\ pwm' = IF hardware_available THEN duty_cycle(Clamp(angle)) ELSE pwm
    /\ commands' = commands + 1
    /\ UNCHANGED <<current_angle, hardware_available, gpio, hw_frees>>

SetAngleEndHolding(angle) ==
    /\ current_angle' = angle
    /\ UNCHANGED <<pwm, hardware_available, commands, gpio, hw_frees>>

\* lines 50 and 55: zero the drive signal (hardware), store the angle.
SetAngleEnd(angle) ==
    /\ pwm' = IF hardware_available THEN FromInt(0) ELSE pwm
    /\ current_angle' = angle
    /\ UNCHANGED <<hardware_available, commands, gpio, hw_frees>>

(***************************************************************************)
(* FaceTrackerThread.run                                                   *)
(***************************************************************************)
WorkerAlive == w_pc \notin {"none", "done", "crashed"}

\* line 110: self.cap = cv2.VideoCapture(0); the camera opens or does not.
run_110 ==
    /\ w_pc = "start"
    /\ \E opened \in BOOLEAN : cap' = IF opened THEN "open" ELSE "failed"
    /\ w_pc' = "isOpened"
    /\ UNCHANGED <<servoVars, callVars, uiVars, events, w_after, w_centered, w_exc, w_face, w_diff,
                   w_angle, running, ticks, stop_requested, ticks_after_stop,
                   tick_ret, tick_pubs>>

\* lines 111-116: return when the capture is not open.
run_111 ==
    /\ w_pc = "isOpened"
    /\ w_pc' = IF cap = "open" THEN "center" ELSE "done"
    /\ UNCHANGED <<servoVars, callVars, uiVars, events, w_after, w_centered, w_exc, w_face, w_diff,
                   w_angle, running, cap, ticks, stop_requested,
                   ticks_after_stop, tick_ret, tick_pubs>>

\* line 119 left out: run() goes on to line 121 without centring.
run_119_uncentred ==
    /\ w_pc = "center"
    /\ w_pc' = "set_running"
    /\ UNCHANGED <<servoVars, callVars, uiVars, events, w_after, w_centered,
                   w_exc, w_face, w_diff, w_angle, running, cap, ticks,
                   stop_requested, ticks_after_stop, tick_ret, tick_pubs>>

\* line 119: center_servo() -> set_angle(center_angle), lines 43-49.
run_119 ==
    /\ w_pc = "center"
    /\ SetAngleBegin(FromInt(center_angle))
    /\ w_angle' = Clamp(FromInt(center_angle))
    /\ w_pc' = "set_angle"
    /\ w_after' = "set_running"
    /\ UNCHANGED <<callVars, uiVars, events, w_centered, w_exc, w_face, w_diff, running, cap, ticks,
                   stop_requested, ticks_after_stop, tick_ret, tick_pubs>>

\* lines 50-55 of the worker's set_angle call, then back to the caller.
run_set_angle_55 ==
    /\ w_pc = "set_angle"
    /\ SetAngleEnd(w_angle)
    /\ w_pc' = w_after
    /\ w_centered' = (w_centered \/ (w_after = "set_running"
                                       /\ w_angle = FromInt(center_angle)))
    /\ UNCHANGED <<callVars, uiVars, events, w_after, w_exc, w_face, w_diff, w_angle,
                   running, cap, ticks, stop_requested, ticks_after_stop,
                   tick_ret, tick_pubs>>

\* line 121: self.running = True
run_121 ==
    /\ w_pc = "set_running"
    /\ running' = TRUE
    /\ w_pc' = "loop"
    /\ UNCHANGED <<servoVars, callVars, uiVars, events, w_after, w_centered, w_exc, w_face, w_diff,
                   w_angle, cap, ticks, stop_requested, ticks_after_stop,
                   tick_ret, tick_pubs>>

\* line 122: while self.running
run_122 ==
    /\ w_pc = "loop"
    /\ w_pc' = IF running THEN "read" ELSE "done"
    /\ UNCHANGED <<servoVars, callVars, uiVars, events, w_after, w_centered, w_exc, w_face, w_diff,
                   w_angle, running, cap, ticks, stop_requested,
                   ticks_after_stop, tick_ret, tick_pubs>>

\* line 136 left out: the tracking step runs whether or not a face was found
run_123_tracks_empty ==
    /\ w_pc = "read"
    /\ ticks < MaxTicks
    /\ ticks' = ticks + 1
    /\ ticks_after_stop' = IF stop_requested THEN ticks_after_stop + 1
                           ELSE ticks_after_stop
    /\ tick_pubs' = 0
    /\ \E ret \in (IF cap = "open" THEN BOOLEAN ELSE {FALSE}),
          face \in AppFaceXs \cup {NoFace} :
            /\ tick_ret' = ret
            /\ w_face' = IF ret THEN face ELSE NoFace
            /\ w_pc' = IF ~ret THEN "sleep" ELSE "track_face"
    /\ UNCHANGED <<servoVars, callVars, uiVars, events, w_after, w_centered,
                   w_exc, w_diff, w_angle, running, cap, stop_requested>>

\* lines 123-144: read a frame, detect faces, pick the largest.  A released
\* capture reads no frame; an open one may fail to deliver one.
run_123 ==
    /\ w_pc = "read"
    /\ ticks < MaxTicks
    /\ ticks' = ticks + 1
    /\ ticks_after_stop' = IF stop_requested THEN ticks_after_stop + 1
                           ELSE ticks_after_stop
    /\ tick_pubs' = 0
    /\ \E ret \in (IF cap = "open" THEN BOOLEAN ELSE {FALSE}),
          face \in AppFaceXs \cup {NoFace} :
            /\ tick_ret' = ret
            /\ w_face' = IF ret THEN face ELSE NoFace
            /\ w_pc' = IF ~ret THEN "sleep"
                       ELSE IF face = NoFace THEN "frame_ready" ELSE "track_face"
    /\ UNCHANGED <<servoVars, callVars, uiVars, events, w_after, w_centered, w_exc, w_diff, w_angle,
                   running, cap, stop_requested>>

\* lines 147, 60-78: track_face up to the first read of self.current_angle.
run_track_face_77 ==
    /\ w_pc = "track_face"
    /\ \E frame_width \in AppFrameWidths :
        IF InDeadZone(w_face, frame_width)
        THEN w_pc' = "emit" /\ UNCHANGED <<w_diff, w_exc>>
        ELSE IF DivByZero(frame_width)
        THEN /\ w_pc' = "crashed"
             /\ w_exc' = "ZeroDivisionError"
             /\ UNCHANGED w_diff
        ELSE /\ w_diff' = angle_diff(current_angle, w_face, frame_width)
             /\ w_pc' = "track_face_80"
             /\ UNCHANGED w_exc
    /\ UNCHANGED <<servoVars, callVars, uiVars, events, w_after, w_centered, w_face, w_angle,
                   running, cap, ticks, stop_requested, ticks_after_stop,
                   tick_ret, tick_pubs>>

\* lines 80-83 and 43-49: second read of self.current_angle, then set_angle.
run_track_face_80 ==
    /\ w_pc = "track_face_80"
    /\ SetAngleBegin(new_angle(current_angle, w_diff))
    /\ w_angle' = Clamp(new_angle(current_angle, w_diff))
    /\ w_pc' = "set_angle"
    /\ w_after' = "emit"
    /\ UNCHANGED <<callVars, uiVars, events, w_centered, w_exc, w_face, w_diff, running, cap, ticks,
                   stop_requested, ticks_after_stop, tick_ret, tick_pubs>>

\* line 150: servo_angle_update.emit(current_angle); the signal carries an
\* int (line 99), so the number is truncated.  A queued emission is tagged
\* with the iteration that made it.
run_150 ==
    /\ w_pc = "emit"
    /\ Len(events) < MaxQueue
    /\ events' = Append(events,
                        <<"servo_angle_update", RTrunc(current_angle), ticks>>)
    /\ tick_pubs' = tick_pubs + 1
    /\ w_pc' = "frame_ready"
    /\ UNCHANGED <<servoVars, callVars, uiVars, w_after, w_centered, w_exc, w_face, w_diff, w_angle,
                   running, cap, ticks, stop_requested, ticks_after_stop,
                   tick_ret>>

\* lines 153-156: frame_ready.emit(frame, faces_list)
run_156 ==
    /\ w_pc = "frame_ready"
    /\ Len(events) < MaxQueue
    /\ events' = Append(events,
                        <<"frame_ready", IF w_face = NoFace THEN 0 ELSE 1, ticks>>)
    /\ w_pc' = "sleep"
    /\ UNCHANGED <<servoVars, callVars, uiVars, w_after, w_centered, w_exc, w_face, w_diff, w_angle,
                   running, cap, ticks, stop_requested, ticks_after_stop,
                   tick_ret, tick_pubs>>

\* line 159: self.msleep(30), then back to the loop test.
run_159 ==
    /\ w_pc = "sleep"
    /\ w_pc' = "loop"
    /\ UNCHANGED <<servoVars, callVars, uiVars, events, w_after, w_centered, w_exc, w_face, w_diff,
                   w_angle, running, cap, ticks, stop_requested,
                   ticks_after_stop, tick_ret, tick_pubs>>

(***************************************************************************)
(* FaceTrackerThread.stop, called on the UI thread                         *)
(***************************************************************************)
\* line 162: self.running = False
StopBegin ==
    /\ running' = FALSE
    /\ stop_requested' = TRUE
    /\ ui_pc' = "stop_163"

\* lines 163-164: if self.cap: self.cap.release()
stop_163 ==
    /\ ui_pc = "stop_163"
    /\ cap' = IF cap = "None" THEN cap ELSE "released"
    /\ ui_pc' = "stop_165"
    /\ UNCHANGED <<servoVars, callVars, events, ui_angle, ui_closing, ui_events,
                   slider, angle_label, is_tracking, tracker_thread,
                   stop_enabled, w_pc, w_after, w_centered, w_exc, w_face, w_diff, w_angle,
                   running, ticks, stop_requested, ticks_after_stop, tick_ret,
                   tick_pubs>>

\* line 165 left out: stop() returns without waiting for run()
stop_165_nowait ==
    /\ ui_pc = "stop_165"
    /\ ui_pc' = "stop_418"
    /\ UNCHANGED <<servoVars, callVars, events, ui_angle, ui_closing, ui_events,
                   slider, angle_label, is_tracking, tracker_thread,
                   stop_enabled, workerVars>>

\* line 165: self.wait() returns once run() has returned.
stop_165 ==
    /\ ui_pc = "stop_165"
    /\ ~WorkerAlive
    /\ ui_pc' = "stop_418"
    /\ UNCHANGED <<servoVars, callVars, events, ui_angle, ui_closing, ui_events,
                   slider, angle_label, is_tracking, tracker_thread,
                   stop_enabled, workerVars>>

(***************************************************************************)
(* FaceTrackerServoApp: the handlers of the UI thread                      *)
(***************************************************************************)
UserEvent == ui_pc = "idle" /\ ui_events < MaxUiEvents

\* lines 357-359 with set_angle lines 43-49: the user moves the slider.
on_angle_slider_changed ==
    /\ UserEvent
    /\ \E value \in SliderValues \ {slider} :
        /\ slider' = value
        /\ SetAngleBegin(FromInt(value))
        /\ ui_angle' = Clamp(FromInt(value))
    /\ ui_pc' = "slider_set_angle"
    /\ ui_events' = ui_events + 1
    /\ UNCHANGED <<callVars, events, ui_closing, angle_label, is_tracking,
                   tracker_thread, stop_enabled, workerVars>>

\* set_angle lines 50-55, then line 360 (and line 366 when the change came
\* from the Center button: both show 90).
on_angle_slider_changed_360 ==
    /\ ui_pc = "slider_set_angle"
    /\ SetAngleEnd(ui_angle)
    /\ angle_label' = slider
    /\ ui_pc' = "idle"
    /\ UNCHANGED <<callVars, events, ui_angle, ui_closing, ui_events, slider,
                   is_tracking, tracker_thread, stop_enabled, workerVars>>

\* lines 362-364 with set_angle lines 43-49: the Center button.
app_center_servo ==
    /\ UserEvent
    /\ SetAngleBegin(FromInt(center_angle))
    /\ ui_angle' = Clamp(FromInt(center_angle))
    /\ ui_pc' = "center_set_angle"
    /\ ui_events' = ui_events + 1
    /\ UNCHANGED <<callVars, events, ui_closing, slider, angle_label,
                   is_tracking, tracker_thread, stop_enabled, workerVars>>

\* set_angle lines 50-55, then line 365: angle_slider.setValue(90) emits
\* valueChanged, and so runs on_angle_slider_changed(90), when the slider
\* was elsewhere; otherwise line 366.
app_center_servo_365 ==
    /\ ui_pc = "center_set_angle"
    /\ SetAngleEnd(ui_angle)
    /\ IF slider # 90
       THEN /\ slider' = 90
            /\ ui_pc' = "center_valueChanged"
            /\ UNCHANGED angle_label
       ELSE /\ angle_label' = 90
            /\ ui_pc' = "idle"
            /\ UNCHANGED slider
    /\ UNCHANGED <<callVars, events, ui_angle, ui_closing, ui_events,
                   is_tracking, tracker_thread, stop_enabled, workerVars>>

\* on_angle_slider_changed(90) run from inside center_servo: lines 359, 43-49.
app_center_servo_valueChanged ==
    /\ ui_pc = "center_valueChanged"
    /\ SetAngleBegin(FromInt(slider))
    /\ ui_angle' = Clamp(FromInt(slider))
    /\ ui_pc' = "slider_set_angle"
    /\ UNCHANGED <<callVars, events, ui_closing, ui_events, slider, angle_label,
                   is_tracking, tracker_thread, stop_enabled, workerVars>>

\* lines 375-412: a new FaceTrackerThread (lines 101-106) is started.
start_tracking ==
    /\ tracker_thread' = "thread"
    /\ is_tracking' = TRUE
    /\ stop_enabled' = TRUE
    /\ w_pc' = "start"
    /\ running' = FALSE
    /\ cap' = "None"
    /\ stop_requested' = FALSE
    /\ ticks_after_stop' = 0
    /\ w_centered' = FALSE
    /\ w_exc' = "none"
    /\ UNCHANGED <<ui_pc, w_after, w_face, w_diff, w_angle, ticks, tick_ret,
                   tick_pubs>>

\* line 370 left out: the Start button starts a worker in any case
toggle_tracking_start_unguarded ==
    /\ UserEvent
    /\ start_tracking
    /\ ui_events' = ui_events + 1
    /\ UNCHANGED <<servoVars, callVars, events, ui_angle, ui_closing, slider,
                   angle_label>>

\* lines 368-371: the Start button while not tracking.
toggle_tracking_start ==
    /\ UserEvent
    /\ ~is_tracking
    /\ start_tracking
    /\ ui_events' = ui_events + 1
    /\ UNCHANGED <<servoVars, callVars, events, ui_angle, ui_closing, slider,
                   angle_label>>

\* lines 368-373, 414-417, 162: the Start button while tracking.
toggle_tracking_stop ==
    /\ UserEvent
    /\ is_tracking
    /\ tracker_thread # "None"
    /\ StopBegin
    /\ ui_events' = ui_events + 1
    /\ UNCHANGED <<servoVars, callVars, events, ui_angle, ui_closing, slider,
                   angle_label, is_tracking, tracker_thread, stop_enabled,
                   w_pc, w_after, w_centered, w_exc, w_face, w_diff, w_angle, cap, ticks,
                   ticks_after_stop, tick_ret, tick_pubs>>

\* lines 414-417, 162: the Stop button (enabled by start_tracking).
stop_tracking ==
    /\ UserEvent
    /\ stop_enabled
    /\ tracker_thread # "None"
    /\ StopBegin
    /\ ui_events' = ui_events + 1
    /\ UNCHANGED <<servoVars, callVars, events, ui_angle, ui_closing, slider,
                   angle_label, is_tracking, tracker_thread, stop_enabled,
                   w_pc, w_after, w_centered, w_exc, w_face, w_diff, w_angle, cap, ticks,
                   ticks_after_stop, tick_ret, tick_pubs>>

\* lines 418-454, after stop() has returned.
stop_tracking_418 ==
    /\ ui_pc = "stop_418"
    /\ tracker_thread' = "None"
    /\ is_tracking' = FALSE
    /\ stop_enabled' = FALSE
    /\ ui_pc' = IF ui_closing THEN "cleanup" ELSE "idle"
    /\ UNCHANGED <<servoVars, callVars, events, ui_angle, ui_closing, ui_events,
                   slider, angle_label, workerVars>>

\* lines 494-496: the window is closed; stop_tracking() runs first.
closeEvent ==
    /\ UserEvent
    /\ ui_closing' = TRUE
    /\ ui_events' = ui_events + 1
    /\ IF tracker_thread # "None"
       THEN /\ StopBegin
            /\ UNCHANGED <<is_tracking, stop_enabled>>
       ELSE /\ is_tracking' = FALSE
            /\ stop_enabled' = FALSE
            /\ ui_pc' = "cleanup"
            /\ UNCHANGED <<running, stop_requested>>
    /\ UNCHANGED <<servoVars, callVars, events, ui_angle, slider, angle_label,
                   tracker_thread, w_pc, w_after, w_centered, w_exc, w_face, w_diff, w_angle, cap,
                   ticks, ticks_after_stop, tick_ret, tick_pubs>>

\* lines 497-498 with cleanup lines 89-94.
closeEvent_497 ==
    /\ ui_pc = "cleanup"
    /\ CleanupEffect
    /\ ui_pc' = "closed"
    /\ UNCHANGED <<callVars,
                   events, ui_angle, ui_closing, ui_events, slider, angle_label,
                   is_tracking, tracker_thread, stop_enabled, workerVars>>

\* the newest queued servo_angle_update emission is delivered first
update_servo_angle_newest ==
    /\ ui_pc = "idle"
    /\ \E i \in 1..Len(events) :
        /\ events[i][1] = "servo_angle_update"
        /\ \A j \in (i + 1)..Len(events) : events[j][1] # "servo_angle_update"
        /\ angle_label' = events[i][2]
        /\ events' = SubSeq(events, 1, i - 1) \o SubSeq(events, i + 1, Len(events))
    /\ UNCHANGED <<servoVars, callVars, ui_pc, ui_angle, ui_closing, ui_events,
                   slider, is_tracking, tracker_thread, stop_enabled,
                   workerVars>>

\* lines 482-485: the queued servo_angle_update emission is delivered (the
\* connection of line 378 crosses threads, so Qt queues the calls and runs
\* them in the order of emission).
update_servo_angle ==
    /\ ui_pc = "idle"
    /\ events # <<>>
    /\ Head(events)[1] = "servo_angle_update"
    /\ angle_label' = Head(events)[2]
    /\ events' = Tail(events)
    /\ UNCHANGED <<servoVars, callVars, ui_pc, ui_angle, ui_closing, ui_events,
                   slider, is_tracking, tracker_thread, stop_enabled,
                   workerVars>>

\* lines 456-480: the queued frame_ready emission is delivered.
process_frame ==
    /\ ui_pc = "idle"
    /\ events # <<>>
    /\ Head(events)[1] = "frame_ready"
    /\ events' = Tail(events)
    /\ UNCHANGED <<servoVars, callVars, uiVars, workerVars>>

NextApp ==
    \/ run_110 \/ run_111 \/ run_119 \/ run_set_angle_55 \/ run_121 \/ run_122
    \/ run_123 \/ run_track_face_77 \/ run_track_face_80 \/ run_150 \/ run_156
    \/ run_159
    \/ stop_163 \/ stop_165
    \/ on_angle_slider_changed \/ on_angle_slider_changed_360
    \/ app_center_servo \/ app_center_servo_365 \/ app_center_servo_valueChanged
    \/ toggle_tracking_start \/ toggle_tracking_stop \/ stop_tracking
    \/ stop_tracking_418 \/ closeEvent \/ closeEvent_497
    \/ update_servo_angle \/ process_frame

SpecApp == Init /\ [][NextApp]_vars

(***************************************************************************)
(* Target selection in FaceTrackerThread.run (lines 136-147), on its own:  *)
(* the detector's result is drawn at Init, the action is the selection and *)
(* the tracking step that follows it.                                      *)
(***************************************************************************)
MaxFaces == 3

\* (x, y, w, h) rows as detectMultiScale returns them; two pairs of distinct
\* boxes share an area.
Boxes == {<<0, 0, 30, 30>>, <<100, 0, 30, 30>>, <<200, 0, 40, 30>>,
          <<300, 5, 30, 40>>, <<50, 50, 50, 50>>}

FaceSeqs == UNION {[1..n -> Boxes] : n \in 0..MaxFaces}

\* line 139: key=lambda x: x[2] * x[3]
Area(box) == box[3] * box[4]

BetterOrEqual(box, best) == Area(box) >= Area(best)

\* line 139: max() replaces its candidate only by a strictly greater key
Better(box, best) == Area(box) > Area(best)

RECURSIVE MaxFrom(_, _, _)
MaxFrom(fs, i, best) ==
    IF i > Len(fs)
    THEN best
    ELSE MaxFrom(fs, i + 1, IF Better(fs[i], best) THEN fs[i] ELSE best)

\* line 139: max(faces, key=...), faces not empty
LargestFace(fs) == MaxFrom(fs, 2, fs[1])

\* lines 140-143
face_center_x(box) == box[1] + box[3] \div 2

SelectInit ==
    /\ ServoInit
    /\ faces \in FaceSeqs
    /\ largest_face = <<>>
    /\ selection = "pending"
    /\ config = DefaultConfig
    /\ constructed = "yes"
    /\ probe = IF hardware_available THEN "ok" ELSE "ImportError"

\* lines 136-147
run_136 ==
    /\ selection = "pending"
    /\ IF Len(faces) > 0
       THEN /\ largest_face' = LargestFace(faces)
            /\ selection' = "tracked"
            /\ \E frame_width \in AppFrameWidths :
                   TrackFaceCall(face_center_x(LargestFace(faces)), frame_width)
       ELSE /\ largest_face' = <<>>
            /\ selection' = "no_target"
            /\ UNCHANGED <<servoVars, last, ops, drive, appVars>>
    /\ UNCHANGED <<faces, config, constructed, probe>>

NextSelect == run_136

SpecSelect == SelectInit /\ [][NextSelect]_vars

(***************************************************************************)
(* ServoController constructed with other min_angle, max_angle and         *)
(* center_angle arguments (line 14), then driven by set_angle.             *)
(***************************************************************************)
Configs == {DefaultConfig,
            [min |-> -90, max |-> 90, center |-> 0],
            [min |-> 0, max |-> 270, center |-> 135]}

ConfigAngles == {-90, -10, 0, 90, 180, 270}

\* line 43 with the configured limits
ClampTo(lo, hi, angle) == RMax(FromInt(lo), RMin(FromInt(hi), angle))

\* lines 14-38
ConfigInit ==
    /\ config \in Configs
    /\ current_angle = FromInt(config.center)
    /\ hardware_available \in BOOLEAN
    /\ pwm = FromInt(0)
    /\ commands = 0
    /\ gpio = IF hardware_available THEN "active" ELSE "none"
    /\ hw_frees = 0
    /\ last = [NoCall EXCEPT !.prev_angle = FromInt(config.center)]
    /\ ops = 0
    /\ drive = <<>>
    /\ faces = <<>>
    /\ largest_face = <<>>
    /\ selection = "pending"
    /\ constructed = "yes"
    /\ probe = IF hardware_available THEN "ok" ELSE "ImportError"
    /\ AppInit

\* RPi.GPIO documents ChangeDutyCycle for 0.0 to 100.0
DutyAccepted(dc) == RLe(FromInt(0), dc) /\ RLe(dc, FromInt(100))

\* lines 40-55 with the configured limits.  A duty cycle outside 0..100 is
\* handed to ChangeDutyCycle all the same; the library then either takes it
\* or raises ValueError, which leaves line 48 and skips lines 49-55.
set_angle_configured ==
    \E angle \in ConfigAngles, raised \in BOOLEAN :
        LET clamped == ClampTo(config.min, config.max, FromInt(angle))
            dc == duty_cycle(clamped)
        IN  /\ ops < MaxOps
            /\ raised => (hardware_available /\ ~DutyAccepted(dc))
            /\ IF raised
               THEN /\ drive' = <<dc>>
                    /\ pwm' = pwm
                    /\ current_angle' = current_angle
                    /\ Called("set_angle", angle, 0, 0, "ValueError")
               ELSE /\ drive' = IF hardware_available
                                THEN <<dc, FromInt(0)>>
                                ELSE <<>>
                    /\ pwm' = FromInt(0)
                    /\ current_angle' = clamped
                    /\ Called("set_angle", angle, 0, 0, "ok")
            /\ commands' = commands + 1
            /\ UNCHANGED <<hardware_available, gpio, hw_frees, sideVars>>

NextConfig == set_angle_configured

SpecConfig == ConfigInit /\ [][NextConfig]_vars

(***************************************************************************)
(* ServoController.__init__ step by step: lines 15-24 have stored the      *)
(* fields, the try block of lines 27-38 is the action.  RPi.GPIO is absent *)
(* (ImportError), works, or fails in the import, setmode, setup or PWM     *)
(* calls with the RuntimeError the library raises.                         *)
(***************************************************************************)
ProbeOutcomes == {"ok", "ImportError", "RuntimeError"}

\* lines 15-24
ConstructInit ==
    /\ constructed = "no"
    /\ probe \in ProbeOutcomes
    /\ current_angle = FromInt(center_angle)
    /\ hardware_available = FALSE
    /\ pwm = FromInt(0)
    /\ commands = 0
    /\ gpio = "none"
    /\ hw_frees = 0
    /\ last = NoCall
    /\ ops = 0
    /\ drive = <<>>
    /\ faces = <<>>
    /\ largest_face = <<>>
    /\ selection = "pending"
    /\ config = DefaultConfig
    /\ AppInit

\* lines 27-38: only ImportError is caught (line 35)
ServoController_init ==
    /\ constructed = "no"
    /\ IF probe = "ok"
       THEN /\ hardware_available' = TRUE
            /\ gpio' = "active"
            /\ constructed' = "yes"
       ELSE IF probe = "ImportError"
       THEN /\ hardware_available' = FALSE
            /\ gpio' = "none"
            /\ constructed' = "yes"
       ELSE /\ UNCHANGED <<hardware_available, gpio>>
            /\ constructed' = "raised"
    /\ UNCHANGED <<current_angle, pwm, commands, hw_frees, last, ops, drive,
                   faces, largest_face, selection, config, probe, appVars>>

NextConstruct == ServoController_init \/ (constructed = "yes" /\ Next)

SpecConstruct == ConstructInit /\ [][NextConstruct]_vars

(***************************************************************************)
(* The application with a failing actuator: in hardware mode a             *)
(* servo.ChangeDutyCycle call of the worker may raise.  Neither set_angle  *)
(* (lines 40-55), track_face (57-83) nor run (108-159) has a try block, so *)
(* the exception leaves run() and the thread ends.                         *)
(***************************************************************************)
\* line 48 raises inside the track_face call of a tick: nothing is written,
\* lines 49-55 are skipped.
run_set_angle_48_raises ==
    /\ w_pc = "track_face_80"
    /\ hardware_available
    /\ w_angle' = Clamp(new_angle(current_angle, w_diff))
    /\ w_pc' = "crashed"
    /\ w_exc' = "WriteError"
    /\ w_after' = "emit"
    /\ UNCHANGED <<servoVars, callVars, uiVars, events, w_centered, w_face,
                   w_diff, running, cap, ticks, stop_requested,
                   ticks_after_stop, tick_ret, tick_pubs>>

\* line 50 raises: the duty cycle stays as line 48 wrote it, line 55 is
\* skipped.
run_set_angle_50_raises ==
    /\ w_pc = "set_angle"
    /\ hardware_available
    /\ w_pc' = "crashed"
    /\ w_exc' = "WriteError"
    /\ UNCHANGED <<servoVars, callVars, uiVars, events, w_after, w_centered,
                   w_face, w_diff, w_angle, running, cap, ticks,
                   stop_requested, ticks_after_stop, tick_ret, tick_pubs>>

NextFault == NextApp \/ run_set_angle_48_raises \/ run_set_angle_50_raises

SpecFault == Init /\ [][NextFault]_vars

(***************************************************************************)
(* Claims about the ServoController calls (checked under Spec).            *)
(***************************************************************************)
TrackFaceCalled == last.op = "track_face"
AngleUnchangedByCall == current_angle = last.prev_angle
NoCommandByCall == commands = last.prev_commands
ChangeByCall == RAbs(RSub(current_angle, last.prev_angle))

\* C1: in every reachable state, after construction and after any sequence
\* of set_angle, track_face and center_servo calls with arbitrary arguments,
\* min_angle <= current_angle <= max_angle.
C1_AngleInRange == InRange(current_angle)

\* C1 witness: a set_angle above the range has been clamped to max_angle.
C1_Witness ==
    /\ last.op = "set_angle"
    /\ last.angle > max_angle
    /\ current_angle = FromInt(max_angle)

\* C2: one track_face call changes current_angle by at most
\* max_speed * smoothing_factor, from any in-range angle and for any target
\* position and frame width.
C2_TickChangeBounded ==
    TrackFaceCalled =>
        RLe(ChangeByCall, RMul(FromInt(max_speed), smoothing_factor))

\* C2 witness: a track_face call that moved the angle by the full
\* max_speed * smoothing_factor.
C2_Witness ==
    /\ TrackFaceCalled
    /\ last.outcome = "ok"
    /\ ChangeByCall = RMul(FromInt(max_speed), smoothing_factor)

\* C3 (as amended): a track_face call whose offset from the integer frame
\* centre, face_x - frame_width // 2, is smaller in magnitude than dead_zone
\* leaves current_angle unchanged and issues no actuator command, for every
\* frame width.
C3_DeadZoneFloorCentre ==
    (TrackFaceCalled /\ Abs(last.face_x - (last.frame_width \div 2)) < dead_zone)
        => (AngleUnchangedByCall /\ NoCommandByCall)

\* C3 witness: a dead-zone call on an odd frame width, made after the angle
\* had left the centre.
C3_Witness ==
    /\ TrackFaceCalled
    /\ last.frame_width % 2 = 1
    /\ Abs(last.face_x - (last.frame_width \div 2)) < dead_zone
    /\ last.face_x # last.frame_width \div 2
    /\ current_angle # FromInt(center_angle)
    /\ AngleUnchangedByCall

\* C3 (as claimed): the same with the offset taken from the exact half
\* width, |face_x - frame_width / 2| < dead_zone, that is
\* |2 * face_x - frame_width| < 2 * dead_zone.
C3_DeadZoneExactHalf ==
    (TrackFaceCalled /\ Abs(2 * last.face_x - last.frame_width) < 2 * dead_zone)
        => (AngleUnchangedByCall /\ NoCommandByCall)

\* C4 (as claimed): a track_face call with frame_width <= 0 ends in the
\* InvalidFrameGeometry error outcome (no division by zero), leaves
\* current_angle unchanged and issues no actuator command.
C4_InvalidFrameGeometrySignalled ==
    (TrackFaceCalled /\ last.frame_width <= 0)
        => /\ last.outcome = "InvalidFrameGeometry"
           /\ AngleUnchangedByCall
           /\ NoCommandByCall

\* C5 (as claimed): for every frame_width > 0, frame_width = 1 included, and
\* every target position the track_face call completes and leaves an angle
\* in [min_angle, max_angle].
C5_ValidInputCompletesInRange ==
    (TrackFaceCalled /\ last.frame_width > 0)
        => /\ last.outcome \in {"ok", "dead_zone"}
           /\ InRange(current_angle)

(***************************************************************************)
(* Claims about the application (checked under SpecApp).                   *)
(***************************************************************************)
\* A manual set_angle call of the UI thread is in progress.
ManualWriteInProgress == ui_pc \in {"slider_set_angle", "center_set_angle"}
\* A track_face or set_angle call of the worker is in progress.
AutomaticWriteInProgress == w_pc \in {"track_face_80", "set_angle"}
\* The actuator resource is not held: GPIO was never acquired or was cleaned up.
Released == gpio # "active"
Centered == current_angle = FromInt(center_angle)

\* C6 (as claimed): the servo state has one writer at a time: no manual
\* set_angle is in progress while an automatic track_face/set_angle on the
\* same ServoController is in progress.
C6_SingleWriter == ~(ManualWriteInProgress /\ AutomaticWriteInProgress)

\* C7 (as claimed): when stop() has completed, current_angle = center_angle
\* and the actuator resource is released.
C7_StopCentersAndReleases == (ui_pc = "stop_418") => (Centered /\ Released)

\* C8 (as claimed): whenever the control loop exits (run() returns), by any
\* path, the servo has been centred and the actuator released.
C8_CleanupOnEveryExit ==
    [][(w_pc # "done" /\ w_pc' = "done") => (Centered' /\ Released')]_vars

\* C9 (as claimed): once stop() has set the flag, the worker starts at most
\* one further loop iteration.
C9_AtMostOneTickAfterStop == ticks_after_stop <= 1

\* C10 (as claimed): every loop iteration that processed a frame has
\* published the angle exactly once by the time it ends, with or without a
\* detection.
C10_PublishedOncePerTick == (w_pc = "sleep" /\ tick_ret) => tick_pubs = 1

\* The worker is at or inside its loop (lines 122-159).
InLoop ==
    \/ w_pc \in {"loop", "read", "track_face", "track_face_80", "emit",
                 "frame_ready", "sleep"}
    \/ (w_pc = "set_angle" /\ w_after = "emit")

C13_ClampOf(x) ==
    IF x < min_angle THEN min_angle ELSE IF x > max_angle THEN max_angle ELSE x

\* C13: right after set_angle(x) the angle read back is x clamped to
\* [min_angle, max_angle], whatever the angle was before the call; right
\* after center_servo() it is center_angle.
C13_SetThenReadIsClamp ==
    /\ last.op = "set_angle" => current_angle = FromInt(C13_ClampOf(last.angle))
    /\ last.op = "center_servo" => current_angle = FromInt(center_angle)

\* C13 witness: set_angle(45) made from an angle other than the centre and
\* other than 45, read back as 45.
C13_Witness ==
    /\ last.op = "set_angle"
    /\ last.angle = 45
    /\ last.prev_angle # FromInt(center_angle)
    /\ last.prev_angle # FromInt(45)
    /\ current_angle = FromInt(45)

\* The seven-step algorithm C14 compares the code with: offset from
\* frame_width / 2, the proportional target clamped to the range, the
\* slew-rate clamp, smoothing and a final clamp.
C14_Limit(lo, hi, x) == IF RLt(x, lo) THEN lo ELSE IF RLt(hi, x) THEN hi ELSE x
C14_Offset(fx, fw) == RSub(FromInt(fx), Rat(fw, 2))
C14_Skipped(fx, fw) == RLt(RAbs(C14_Offset(fx, fw)), FromInt(dead_zone))
C14_AngleChange(fx, fw) ==
    RMul(RMul(RMul(C14_Offset(fx, fw), Rat(2, fw)),
              FromInt(max_angle - min_angle)),
         Rat(1, 2))
C14_Target(fx, fw) ==
    C14_Limit(FromInt(min_angle), FromInt(max_angle),
              RSub(FromInt(center_angle), C14_AngleChange(fx, fw)))
C14_Diff(cur, fx, fw) ==
    C14_Limit(FromInt(-max_speed), FromInt(max_speed),
              RSub(C14_Target(fx, fw), cur))
C14_NextAngle(cur, fx, fw) ==
    IF C14_Skipped(fx, fw)
    THEN cur
    ELSE C14_Limit(FromInt(min_angle), FromInt(max_angle),
                   RAdd(cur, RMul(C14_Diff(cur, fx, fw), smoothing_factor)))
C14_SameAsAlgorithm ==
    /\ last.outcome # "ZeroDivisionError"
    /\ current_angle =
           C14_NextAngle(last.prev_angle, last.face_x, last.frame_width)

\* C14: for every in-range current_angle, every even frame_width >= 2 and
\* every target centre inside the frame (0 <= face_x <= frame_width), the
\* angle track_face leaves equals the angle of the seven-step algorithm.
C14_StepMatchesAlgorithm ==
    ( /\ TrackFaceCalled
      /\ last.frame_width >= 2
      /\ last.frame_width % 2 = 0
      /\ last.face_x >= 0
      /\ last.face_x <= last.frame_width ) => C14_SameAsAlgorithm

\* C14 witness: from 180, a target at the left edge of a 640 wide frame; the
\* proportional target is 180, the step stays at 180 and equals the
\* algorithm's.
C14_Witness ==
    /\ TrackFaceCalled
    /\ last.frame_width = 640
    /\ last.face_x = 0
    /\ last.prev_angle = FromInt(max_angle)
    /\ last.outcome = "ok"
    /\ current_angle = FromInt(max_angle)
    /\ C14_SameAsAlgorithm

\* C14 (as claimed): the same for every target_center_x and every
\* frame_width > 0, even and odd.
C14_StepMatchesAlgorithmAnyWidth ==
    (TrackFaceCalled /\ last.frame_width > 0) => C14_SameAsAlgorithm

\* C15: with the default configuration, frame_width 640 and current_angle
\* 90, one track_face call with the target centre at 400 leaves current_angle
\* at 89.4 (offset 80, angle_change 22.5, target 67.5, diff -2).
C15_NumericExample ==
    /\ offset_x(400, 640) = 80
    /\ angle_change(400, 640) = <<45, 2>>
    /\ target_angle(400, 640) = <<135, 2>>
    /\ angle_diff(FromInt(90), 400, 640) = FromInt(-2)
    /\ ( /\ TrackFaceCalled
         /\ last.frame_width = 640
         /\ last.face_x = 400
         /\ last.prev_angle = FromInt(90) ) => current_angle = <<447, 5>>

\* C15 witness: that call has been made and moved the actuator.
C15_Witness ==
    /\ TrackFaceCalled
    /\ last.frame_width = 640
    /\ last.face_x = 400
    /\ last.prev_angle = FromInt(90)
    /\ last.outcome = "ok"
    /\ commands = last.prev_commands + 1
    /\ current_angle = <<447, 5>>

\* C16 (as claimed): every drive command issued in hardware mode has the
\* duty cycle (angle/180)*10 + 2.5 of the clamped angle, and it lies in
\* [0, 100] for every configured range and every requested angle.
C16_DutyCycleInPercentRange ==
    (last.op = "set_angle" /\ hardware_available) =>
        /\ Len(drive) >= 1
        /\ drive[1] = duty_cycle(ClampTo(config.min, config.max,
                                         FromInt(last.angle)))
        /\ RLe(FromInt(0), drive[1])
        /\ RLe(drive[1], FromInt(100))

\* C19 (as claimed): cleanup is idempotent in both variants: after two or
\* more calls the state is the one a single call leaves (resource freed,
\* angle untouched), no call raises, and the hardware stop and free are
\* performed at most once.
C19_CleanupIdempotent ==
    (last.op = "cleanup") =>
        /\ last.outcome = "ok"
        /\ Released
        /\ AngleUnchangedByCall
        /\ NoCommandByCall
        /\ hw_frees <= 1

C25_Sign(p) == IF p[1] > 0 THEN 1 ELSE IF p[1] < 0 THEN -1 ELSE 0

\* The proportional target of line 74, clamped to the range.
C25_Target(face_x, frame_width) ==
    C14_Limit(FromInt(min_angle), FromInt(max_angle),
              target_angle(face_x, frame_width))

\* C25: a track_face call with the target outside the dead zone moves
\* current_angle toward the clamped proportional target and never past it:
\* the sign of (target - current_angle) after the call is the sign before
\* it or 0, and the distance does not grow; so over repeated calls with one
\* constant target the sign never flips.
C25_NoOvershoot ==
    [][ (ops' = ops + 1 /\ last'.op = "track_face" /\ last'.outcome = "ok") =>
            LET T == C25_Target(last'.face_x, last'.frame_width)
                before == RSub(T, current_angle)
                after == RSub(T, current_angle')
            IN  /\ C25_Sign(after) \in {C25_Sign(before), 0}
                /\ RLe(RAbs(after), RAbs(before)) ]_vars

\* C25 witness: the second of two calls with the target at 400 in a 640
\* wide frame, from 90: 89.4 after the first, 88.8 after the second, the
\* target 67.5 still below.
C25_Witness ==
    /\ TrackFaceCalled
    /\ last.outcome = "ok"
    /\ last.face_x = 400
    /\ last.frame_width = 640
    /\ last.prev_angle = <<447, 5>>
    /\ current_angle = <<444, 5>>
    /\ ops = 2

(***************************************************************************)
(* Claims about target selection (checked under SpecSelect).               *)
(***************************************************************************)
C12_FirstOfMaxArea(i) ==
    /\ \A j \in 1..Len(faces) : Area(faces[j]) <= Area(faces[i])
    /\ \A j \in 1..(i - 1) : Area(faces[j]) < Area(faces[i])

\* C12: for every sequence of boxes the selection picks a box of maximum
\* area w*h, the first such box in input order when several share the
\* maximum, and the tracking step runs on its centre; for the empty sequence
\* there is no target and no tracking step runs; the sequence itself is left
\* as it was.
C12_SelectsFirstLargest ==
    [][ /\ faces' = faces
        /\ IF faces = <<>>
           THEN /\ selection' = "no_target"
                /\ largest_face' = <<>>
                /\ UNCHANGED <<servoVars, last, ops, drive>>
           ELSE /\ selection' = "tracked"
                /\ \E i \in 1..Len(faces) :
                       /\ largest_face' = faces[i]
                       /\ C12_FirstOfMaxArea(i)
                /\ last'.op = "track_face"
                /\ last'.face_x = largest_face'[1] + largest_face'[3] \div 2
                /\ ops' = ops + 1 ]_vars

\* C12 witness: three boxes, the first and the last distinct and of the same
\* maximum area, and the first one was picked and tracked.
C12_Witness ==
    /\ selection = "tracked"
    /\ Len(faces) = 3
    /\ faces[1] # faces[3]
    /\ Area(faces[1]) = Area(faces[3])
    /\ Area(faces[2]) < Area(faces[1])
    /\ largest_face = faces[1]
    /\ last.op = "track_face"

(***************************************************************************)
(* Claims about the drive signal (checked under SpecApp).                  *)
(***************************************************************************)
C17_SetAngleInProgress == ManualWriteInProgress \/ w_pc = "set_angle"

\* C17: in hardware mode every set_angle writes its duty cycle when it
\* begins and writes 0 when it ends, and the drive signal is 0 in every
\* state in which no set_angle is in progress.
C17_DrivePulse ==
    [][ hardware_available =>
          /\ (w_pc # "set_angle" /\ w_pc' = "set_angle") =>
                 (pwm' = duty_cycle(w_angle') /\ commands' = commands + 1)
          /\ (~ManualWriteInProgress /\ ManualWriteInProgress') =>
                 (pwm' = duty_cycle(ui_angle') /\ commands' = commands + 1)
          /\ (w_pc = "set_angle" /\ w_pc' # "set_angle") => pwm' = FromInt(0)
          /\ (ManualWriteInProgress /\ ~ManualWriteInProgress') =>
                 pwm' = FromInt(0)
          /\ ~C17_SetAngleInProgress' => pwm' = FromInt(0) ]_vars

\* C17 witness: in hardware mode the worker's set_angle of a tracking step
\* has finished, the actuator has moved off the centre and the drive signal
\* is back at 0 with no set_angle in progress.
C17_Witness ==
    /\ hardware_available
    /\ w_pc = "emit"
    /\ ~C17_SetAngleInProgress
    /\ current_angle = w_angle
    /\ current_angle # FromInt(center_angle)
    /\ commands >= 2
    /\ pwm = FromInt(0)

(***************************************************************************)
(* Claims about construction (checked under SpecConstruct).                *)
(***************************************************************************)
\* C18 (as claimed): construction never fails, whatever way the hardware
\* probe fails; a failed probe gives the simulated variant, and right after
\* construction current_angle is center_angle.
C18_ConstructionNeverFails ==
    (constructed # "no") =>
        /\ constructed = "yes"
        /\ probe # "ok" => ~hardware_available
        /\ ops = 0 => current_angle = FromInt(center_angle)

(***************************************************************************)
(* Claims about a failing actuator write (checked under SpecFault).        *)
(***************************************************************************)
\* C20 (as claimed): when an actuator write fails in hardware mode during a
\* tick the failure is not fatal: current_angle holds the value that tick
\* computed and the loop stays Running.
C20_WriteFailureNonFatal ==
    (w_exc = "WriteError" /\ w_after = "emit") =>
        /\ WorkerAlive
        /\ current_angle = w_angle

(***************************************************************************)
(* Claims about the signals from the worker to the UI thread (SpecApp).    *)
(***************************************************************************)
C21_IsAngleUpdate(msg) == msg[1] = "servo_angle_update"

\* The queued angle updates are in the order of the iterations that emitted
\* them, one message per iteration.
C21_PendingInTickOrder(queue) ==
    \A i, j \in 1..Len(queue) :
        (i < j /\ C21_IsAngleUpdate(queue[i]) /\ C21_IsAngleUpdate(queue[j]))
            => queue[i][3] < queue[j][3]

\* C21: angle updates reach the observer in the order of the ticks that
\* produced them: a delivery takes exactly one message, shows its value, and
\* no update of an earlier tick is still waiting behind it; no two updates
\* are merged into one message.
C21_UpdatesDeliveredInTickOrder ==
    [][ /\ C21_PendingInTickOrder(events')
        /\ (Len(events') < Len(events)) =>
               /\ Len(events') = Len(events) - 1
               /\ \E i \in 1..Len(events) :
                      /\ events' = SubSeq(events, 1, i - 1)
                                       \o SubSeq(events, i + 1, Len(events))
                      /\ C21_IsAngleUpdate(events[i]) =>
                             /\ angle_label' = events[i][2]
                             /\ \A j \in 1..Len(events) :
                                    C21_IsAngleUpdate(events[j])
                                        => events[i][3] <= events[j][3] ]_vars

\* C21 witness: the updates of two ticks wait in the queue, the earlier one
\* in front.
C21_Witness ==
    /\ Len(events) = 3
    /\ C21_IsAngleUpdate(events[1])
    /\ C21_IsAngleUpdate(events[3])
    /\ events[1][3] = 1
    /\ events[3][3] = 2

\* A step of the worker inside an iteration that found no face.
C22_EmptyTickStep ==
    /\ w_pc \in {"read", "track_face", "track_face_80", "emit", "frame_ready",
                 "sleep"}
           \/ (w_pc = "set_angle" /\ w_after = "emit")
    /\ w_pc' # w_pc
    /\ w_pc' # "start"
    /\ w_face' = NoFace

\* C22: a tick with zero detections leaves current_angle unchanged, issues
\* no actuator command and keeps the loop Running, for as many consecutive
\* empty ticks as there are.
C22_EmptyTickLeavesActuator ==
    [][ C22_EmptyTickStep =>
            /\ current_angle' = current_angle
            /\ commands' = commands
            /\ pwm' = pwm
            /\ running' = running
            /\ WorkerAlive' ]_vars

\* C22 witness: two consecutive ticks read a frame without a face; the only
\* command so far is the centring of line 119.
C22_Witness ==
    /\ ticks = 2
    /\ w_pc = "sleep"
    /\ running
    /\ events = <<<<"frame_ready", 0, 1>>, <<"frame_ready", 0, 2>>>>
    /\ commands = 1
    /\ current_angle = FromInt(center_angle)

\* C23 (as claimed): the channel from the worker to the UI thread is
\* bounded.  Lines 150 and 156 emit without looking at what is still
\* undelivered; MaxQueue is the point at which the model stops following the
\* queue, and a bounded channel would stay below it.
C23_ChannelBounded == Len(events) < MaxQueue

\* C24 (as claimed): the value published for a tick whose tracking step
\* moved the actuator is the current_angle that step stored, fractional part
\* included, and not a value a manual override stored in between.
C24_PublishedIsTrackedAngle ==
    [][ ( /\ w_pc = "emit"
          /\ w_pc' = "frame_ready"
          /\ \A frame_width \in AppFrameWidths :
                 ~InDeadZone(w_face, frame_width) ) =>
            FromInt(events'[Len(events')][2]) = w_angle ]_vars

(***************************************************************************)
(* Claims about closing, stopping and starting (checked under SpecApp).    *)
(***************************************************************************)
\* C26: once cleanup has released the actuator no drive signal is written
\* any more: no step taken after it issues a command or changes the duty
\* cycle, whatever the worker and the user did before the window closed.
C26_NoWriteAfterCleanup ==
    [][ gpio = "cleaned" => (commands' = commands /\ pwm' = pwm) ]_vars

\* C26 witness: the window was closed while a worker was tracking in hardware
\* mode; the worker had moved the actuator, and cleanup has run.
C26_Witness ==
    /\ hardware_available
    /\ gpio = "cleaned"
    /\ ui_pc = "closed"
    /\ ticks >= 1
    /\ commands >= 2
    /\ current_angle # FromInt(center_angle)
    /\ ~WorkerAlive

\* C27 (as claimed): the worker never reads the capture after stop() has
\* released it: no loop iteration starts its cap.read() with the capture
\* released.
C27_NoReadAfterRelease ==
    [][ (ticks' = ticks + 1) => cap # "released" ]_vars

\* C28 (as claimed): between two UI handlers, is_tracking true means a worker
\* is starting or running its loop, also when the camera cannot be opened;
\* is_tracking false means no worker is alive and tracker_thread is None.
C28_FlagAgreesWithWorker ==
    (ui_pc = "idle") =>
        /\ is_tracking => WorkerAlive
        /\ ~is_tracking => (~WorkerAlive /\ tracker_thread = "None")

\* C29: at most one tracker worker is alive at any time: whenever a worker
\* is created, the previous one has terminated and its thread object is
\* gone.
C29_OneWorkerAtATime ==
    [][ (w_pc' = "start" /\ (w_pc # "start" \/ (~is_tracking /\ is_tracking'))) =>
            (~WorkerAlive /\ tracker_thread = "None" /\ ~is_tracking) ]_vars

\* C29 witness: Start, Stop, Start: a second worker has been created after
\* the first one, which had run a tick, terminated.
C29_Witness ==
    /\ w_pc = "start"
    /\ ticks >= 1
    /\ ui_events = 3
    /\ is_tracking
    /\ tracker_thread = "thread"

====
